---- MODULE Spec2Model ----
(***************************************************************************)
(* BlackLake Python SDK: the request dispatcher (BlackLakeClient._request), *)
(* the typed operation facade, the client's connection lifecycle           *)
(* (BlackLakeClient / BlackLakeClientSync) and the SearchResponse derived  *)
(* views, as one state machine.                                            *)
(*                                                                         *)
(* Python values are tagged records, so that values of different Python    *)
(* types are comparable: Str, Int, Bool, None, List, Dict, Datetime and    *)
(* pydantic models.  A dict is a set of <<key, value>> pairs.              *)
(***************************************************************************)
EXTENDS Integers, Sequences, FiniteSets, TLC

VARIABLES
    wrapper,     \* "async": BlackLakeClient used directly; "sync": BlackLakeClientSync
    api_key,     \* BlackLakeClient.api_key
    http_state,  \* state of self._client (the httpx.AsyncClient): "open" | "closed"
    releases,    \* number of times the connection resource was released
    scope,       \* context-manager position: "outside" | "inside" | "exited"
    loop,        \* BlackLakeClientSync._loop: "None" | "open" | "closed"
    pc,          \* "idle" | "awaiting" (suspended in await self._client.request(...))
    call,        \* the facade invocation in progress or last finished
    outcome,     \* what the transport delivered to the last dispatcher call
    result,      \* what the caller of the last invocation obtained
    view         \* the last read of a SearchResponse derived view

vars == <<wrapper, api_key, http_state, releases, scope, loop,
          pc, call, outcome, result, view>>

lifecycle == <<http_state, releases, scope, loop>>

(***************************************************************************)
(* Bounds of the model.                                                    *)
(***************************************************************************)
MaxTotal == 2       \* largest "total" a caller writes into an envelope

(***************************************************************************)
(* Python values.                                                          *)
(***************************************************************************)
Str(x) == [s |-> x]
Num(x) == [n |-> x]
Bool(x) == [b |-> x]
None == [none |-> TRUE]
List(q) == [l |-> q]
Dict(pairs) == [d |-> pairs]
Datetime(x) == [dt |-> x]
Model(c, pairs) == [cls |-> c, f |-> pairs]

IsStr(v) == DOMAIN v = {"s"}
IsInt(v) == DOMAIN v = {"n"}
IsBool(v) == DOMAIN v = {"b"}
IsNone(v) == DOMAIN v = {"none"}
IsList(v) == DOMAIN v = {"l"}
IsDict(v) == DOMAIN v = {"d"}
IsModel(v) == DOMAIN v = {"cls", "f"}

\* dict operations on a set of <<key, value>> pairs
Keys(pairs) == {p[1] : p \in pairs}
Has(pairs, k) == k \in Keys(pairs)
Item(pairs, k) == (CHOOSE p \in pairs : p[1] = k)[2]
\* dict.get(k, default)
Get(pairs, k, default) == IF Has(pairs, k) THEN Item(pairs, k) ELSE default
\* dict.update(other): the keys of other win
Update(pairs, other) == {p \in pairs : ~Has(other, p[1])} \cup other
\* d[k] = v
SetItem(pairs, k, v) == Update(pairs, {<<k, v>>})

\* str(v), as an f-string formats a value
PyStr(v) ==
    CASE IsStr(v) -> v.s
      [] IsInt(v) -> ToString(v.n)
      [] IsNone(v) -> "None"
      [] IsBool(v) -> IF v.b THEN "True" ELSE "False"
      [] OTHER -> "<object>"

\* str.startswith on header values, which are sequences of tokens
StartsWith(seq, prefix) ==
    /\ Len(seq) >= Len(prefix)
    /\ SubSeq(seq, 1, Len(prefix)) = prefix

(***************************************************************************)
(* The server's payloads.  A response body is its raw text; json(text) is  *)
(* what response.json() makes of it.                                       *)
(***************************************************************************)
T1 == "2024-01-01T00:00:00Z"
T2 == "2024-01-02T00:00:00Z"

BodyText == "oops"
BodyError == "{\"error\":\"boom\"}"
BodyErrorNull == "{\"error\":null}"
BodyArray == "[]"
BodySearch == "{\"success\":true,\"data\":{\"results\":[{\"id\":\"1\",\"repo_name\":\"r\",\"path\":\"a/b.csv\",\"name\":\"b.csv\"}],\"total\":1,\"limit\":10,\"offset\":0}}"
BodyRepos == "{\"success\":true,\"data\":[{\"id\":\"b\",\"name\":\"rb\",\"created_at\":\"2024-01-02T00:00:00Z\",\"updated_at\":\"2024-01-02T00:00:00Z\"},{\"id\":\"a\",\"name\":\"ra\",\"description\":\"first\",\"created_at\":\"2024-01-01T00:00:00Z\",\"updated_at\":\"2024-01-02T00:00:00Z\",\"stars\":3}]}"
BodyRepo == "{\"success\":true,\"data\":{\"id\":\"a\",\"name\":\"ra\",\"description\":\"first\",\"created_at\":\"2024-01-01T00:00:00Z\",\"updated_at\":\"2024-01-02T00:00:00Z\",\"stars\":3}}"
BodyTree == "{\"success\":true,\"data\":[{\"path\":\"z\",\"name\":\"z\",\"type\":\"directory\"},{\"path\":\"a/b.csv\",\"name\":\"b.csv\",\"type\":\"file\",\"size\":7}]}"
BodyNoData == "{\"success\":true}"

Bodies == {BodyText, BodyError, BodyErrorNull, BodyArray,
           BodySearch, BodyRepos, BodyRepo, BodyTree, BodyNoData}

RepoA == {<<"id", Str("a")>>, <<"name", Str("ra")>>, <<"description", Str("first")>>,
          <<"created_at", Str(T1)>>, <<"updated_at", Str(T2)>>, <<"stars", Num(3)>>}
RepoB == {<<"id", Str("b")>>, <<"name", Str("rb")>>,
          <<"created_at", Str(T2)>>, <<"updated_at", Str(T2)>>}
EntryZ == {<<"path", Str("z")>>, <<"name", Str("z")>>, <<"type", Str("directory")>>}
EntryB == {<<"path", Str("a/b.csv")>>, <<"name", Str("b.csv")>>, <<"type", Str("file")>>,
           <<"size", Num(7)>>}
Hit1 == {<<"id", Str("1")>>, <<"repo_name", Str("r")>>, <<"path", Str("a/b.csv")>>,
         <<"name", Str("b.csv")>>}
SearchData == {<<"results", List(<<Dict(Hit1)>>)>>, <<"total", Num(1)>>,
               <<"limit", Num(10)>>, <<"offset", Num(0)>>}

Decoded(v) == [ok |-> TRUE, value |-> v]
Undecodable == [ok |-> FALSE, value |-> None]

\* response.json(): json.loads of the body text (JSONDecodeError when it is no JSON)
json(text) ==
    CASE text = BodyError -> Decoded(Dict({<<"error", Str("boom")>>}))
      [] text = BodyErrorNull -> Decoded(Dict({<<"error", None>>}))
      [] text = BodyArray -> Decoded(List(<<>>))
      [] text = BodySearch ->
            Decoded(Dict({<<"success", Bool(TRUE)>>, <<"data", Dict(SearchData)>>}))
      [] text = BodyRepos ->
            Decoded(Dict({<<"success", Bool(TRUE)>>,
                          <<"data", List(<<Dict(RepoB), Dict(RepoA)>>)>>}))
      [] text = BodyRepo -> Decoded(Dict({<<"success", Bool(TRUE)>>, <<"data", Dict(RepoA)>>}))
      [] text = BodyTree ->
            Decoded(Dict({<<"success", Bool(TRUE)>>,
                          <<"data", List(<<Dict(EntryZ), Dict(EntryB)>>)>>}))
      [] text = BodyNoData -> Decoded(Dict({<<"success", Bool(TRUE)>>}))
      [] OTHER -> Undecodable

(***************************************************************************)
(* What the transport (self._client.request) can deliver.                  *)
(***************************************************************************)
Statuses == {200, 302, 400, 401, 403, 404, 500}

\* the value of the response's content-type header; <<>> when the header is absent,
\* as headers.get("content-type", "") then yields ""
ContentTypes == {<<>>, <<"application/json">>, <<"application/json", "; charset=utf-8">>,
                 <<"text/plain">>}

Response(st, ct, body) ==
    [kind |-> "response", status |-> st, ctype |-> ct, text |-> body,
     cls |-> "", desc |-> ""]
Failure(k, c, d) ==
    [kind |-> k, status |-> 0, ctype |-> <<>>, text |-> "", cls |-> c, desc |-> d]

Responses == {Response(st, ct, body) : st \in Statuses, ct \in ContentTypes, body \in Bodies}

\* the httpx.RequestError subclasses: connection refused / DNS / TLS, and timeouts
RequestErrors == {Failure("RequestError", "ConnectError", "All connection attempts failed"),
                  Failure("RequestError", "ConnectTimeout", "timed out"),
                  Failure("RequestError", "ReadTimeout", "read timed out")}

\* exceptions of the transport that are no httpx.RequestError
OtherErrors == {Failure("Exception", "InvalidURL", "Invalid non-printable ASCII character in URL")}

Outcomes == Responses \cup RequestErrors \cup OtherErrors

NoOutcome == Failure("none", "", "")

(***************************************************************************)
(* The error taxonomy (exceptions.py) and what a call ends in.             *)
(***************************************************************************)
Taxonomy == {"BlackLakeError", "AuthenticationError", "AuthorizationError", "NotFoundError",
             "ValidationError", "RateLimitError", "ServerError", "NetworkError",
             "TimeoutError"}

Return(v) == [kind |-> "return", exc |-> "", message |-> "", value |-> v]
\* BlackLakeError.__init__ keeps the message; the other exceptions carry theirs
Raise(e, m) == [kind |-> "raise", exc |-> e, message |-> m, value |-> None]
NoResult == [kind |-> "none", exc |-> "", message |-> "", value |-> None]

(***************************************************************************)
(* BlackLakeClient._get_headers and the dispatcher, BlackLakeClient._request*)
(***************************************************************************)
Version == "0.1.0"

Truthy(v) == ~IsNone(v) /\ v # Str("") /\ v # Dict({})

_get_headers(key) ==
    LET headers == {<<"Content-Type", "application/json">>,
                    <<"User-Agent", "blacklake-sdk-python/" \o Version>>}
    IN  IF Truthy(key)
        THEN SetItem(headers, "Authorization", "Bearer " \o PyStr(key))
        ELSE headers

\* request_headers, were the defaults to win over the call-specific headers
request_headers_defaults_win(key, headers) ==
    IF Truthy(headers) THEN Update(headers.d, _get_headers(key)) ELSE _get_headers(key)

\* lines 98-100: the headers handed to self._client.request
request_headers(key, headers) ==
    IF Truthy(headers) THEN Update(_get_headers(key), headers.d) ELSE _get_headers(key)

is_json(resp) == StartsWith(resp.ctype, <<"application/json">>)

\* how a run of _request ended: its result and the number of response.json() calls made
Ended(r, n) == [res |-> r, decoded |-> n]

\* api_error, were the JSON `error` field ignored
api_error_ignores_field(resp) ==
    IF is_json(resp) /\ ~json(resp.text).ok
    THEN Ended(Raise("JSONDecodeError", "Expecting value"), 1)
    ELSE IF is_json(resp) /\ ~IsDict(json(resp.text).value)
    THEN Ended(Raise("AttributeError", "object has no attribute 'get'"), 1)
    ELSE Ended(Raise("BlackLakeError", "API error: HTTP " \o ToString(resp.status)),
               IF is_json(resp) THEN 1 ELSE 0)

\* lines 118-121: the branch of a status >= 400 other than 401, 403, 404
api_error(resp) ==
    LET error_data == IF is_json(resp) THEN json(resp.text) ELSE Decoded(Dict({}))
        n == IF is_json(resp) THEN 1 ELSE 0
    IN  IF ~error_data.ok THEN Ended(Raise("JSONDecodeError", "Expecting value"), n)
        ELSE IF ~IsDict(error_data.value)
        THEN Ended(Raise("AttributeError", "object has no attribute 'get'"), n)
        ELSE LET error_message ==
                     Get(error_data.value.d, "error", Str("HTTP " \o ToString(resp.status)))
             IN  Ended(Raise("BlackLakeError", "API error: " \o PyStr(error_message)), n)

\* parse_response, were the content-type compared for equality instead of by prefix
parse_response_exact_type(resp) ==
    IF resp.ctype = <<"application/json">>
    THEN IF json(resp.text).ok THEN Ended(Return(json(resp.text).value), 1)
         ELSE Ended(Raise("JSONDecodeError", "Expecting value"), 1)
    ELSE Ended(Return(Dict({<<"data", Str(resp.text)>>})), 0)

\* lines 123-127: the decoded payload of a response below 400
parse_response(resp) ==
    IF is_json(resp)
    THEN IF json(resp.text).ok THEN Ended(Return(json(resp.text).value), 1)
         ELSE Ended(Raise("JSONDecodeError", "Expecting value"), 1)
    ELSE Ended(Return(Dict({<<"data", Str(resp.text)>>})), 0)

\* classify, were the generic branch of a status >= 400 tested first
classify_generic_first(resp) ==
    IF resp.status >= 400 THEN api_error(resp)
    ELSE IF resp.status = 401
    THEN Ended(Raise("AuthenticationError", "Authentication failed"), 0)
    ELSE parse_response(resp)

\* lines 111-127: the status classification
classify(resp) ==
    IF resp.status = 401 THEN Ended(Raise("AuthenticationError", "Authentication failed"), 0)
    ELSE IF resp.status = 403 THEN Ended(Raise("AuthorizationError", "Access denied"), 0)
    ELSE IF resp.status = 404 THEN Ended(Raise("NotFoundError", "Resource not found"), 0)
    ELSE IF resp.status >= 400 THEN api_error(resp)
    ELSE parse_response(resp)

\* lines 129-130: a httpx.RequestError is re-raised as the base BlackLakeError
request_failed(out) == Ended(Raise("BlackLakeError", "Request failed: " \o out.desc), 0)

\* lines 102-130: how _request ends, given what the transport delivered
_request(out) ==
    IF out.kind = "response" THEN classify(out)
    ELSE IF out.kind = "RequestError" THEN request_failed(out)
    ELSE Ended(Raise(out.cls, out.desc), 0)

(***************************************************************************)
(* The response models (models.py): pydantic keyword construction.     *)
(* A field is <<name, type, required>>; a missing optional field is None,  *)
(* keys that are no field are ignored.                                     *)
(***************************************************************************)
Fields(c) ==
    CASE c = "Repository" ->
            {<<"id", "str", TRUE>>, <<"name", "str", TRUE>>,
             <<"description", "str", FALSE>>, <<"created_at", "datetime", TRUE>>,
             <<"updated_at", "datetime", TRUE>>, <<"tenant_id", "str", FALSE>>}
      [] c = "TreeEntry" ->
            {<<"path", "str", TRUE>>, <<"name", "str", TRUE>>, <<"type", "str", TRUE>>,
             <<"size", "int", FALSE>>, <<"modified_at", "datetime", FALSE>>,
             <<"content_type", "str", FALSE>>, <<"classification", "str", FALSE>>}
      [] c = "TreeResponse" ->
            {<<"success", "bool", TRUE>>, <<"data", "List[TreeEntry]", TRUE>>}
      [] c = "SearchResult" ->
            {<<"id", "str", TRUE>>, <<"repo_name", "str", TRUE>>, <<"path", "str", TRUE>>,
             <<"name", "str", TRUE>>, <<"content_type", "str", FALSE>>,
             <<"size", "int", FALSE>>, <<"modified_at", "datetime", FALSE>>,
             <<"classification", "str", FALSE>>, <<"score", "float", FALSE>>,
             <<"highlights", "dict", FALSE>>}
      [] c = "SearchFacet" -> {<<"name", "str", TRUE>>, <<"values", "list", TRUE>>}
      [] c = "SearchResponse" -> {<<"success", "bool", TRUE>>, <<"data", "dict", TRUE>>}

\* the datetime a timestamp field is parsed to
parse_datetime(v) ==
    IF IsStr(v) /\ v.s = T1 THEN Decoded(Datetime("2024-01-01 00:00:00+00:00"))
    ELSE IF IsStr(v) /\ v.s = T2 THEN Decoded(Datetime("2024-01-02 00:00:00+00:00"))
    ELSE IF IsInt(v) THEN Decoded(Datetime("epoch+" \o ToString(v.n)))
    ELSE Undecodable

RECURSIVE validate(_, _)
RECURSIVE convert(_, _)

\* the value a field of the given type takes from a JSON value of that type (the
\* payloads hold no value of another type under a field's name)
convert(type, v) ==
    CASE type = "str" -> IF IsStr(v) THEN Decoded(v) ELSE Undecodable
      [] type = "int" -> IF IsInt(v) THEN Decoded(v) ELSE Undecodable
      [] type = "float" -> IF IsInt(v) THEN Decoded(v) ELSE Undecodable
      [] type = "bool" -> IF IsBool(v) THEN Decoded(v) ELSE Undecodable
      [] type = "dict" -> IF IsDict(v) THEN Decoded(v) ELSE Undecodable
      [] type = "list" -> IF IsList(v) THEN Decoded(v) ELSE Undecodable
      [] type = "datetime" -> parse_datetime(v)
      [] type = "List[TreeEntry]" ->
            IF IsList(v) /\ \A i \in 1..Len(v.l) :
                                IsDict(v.l[i]) /\ validate("TreeEntry", v.l[i].d).ok
            THEN Decoded(List([i \in 1..Len(v.l) |-> validate("TreeEntry", v.l[i].d).value]))
            ELSE Undecodable

\* pydantic validation of the keyword arguments `pairs` against class c
validate(c, pairs) ==
    LET field(f) ==
            IF ~Has(pairs, f[1]) THEN (IF f[3] THEN Undecodable ELSE Decoded(None))
            ELSE IF ~f[3] /\ IsNone(Item(pairs, f[1])) THEN Decoded(None)
            ELSE convert(f[2], Item(pairs, f[1]))
    IN  IF \A f \in Fields(c) : field(f).ok
        THEN Decoded(Model(c, {<<f[1], field(f).value>> : f \in Fields(c)}))
        ELSE Undecodable

\* construction from keyword arguments v: v must be a mapping, and then validate
construct(c, v) ==
    IF ~IsDict(v) THEN Raise("TypeError", "argument after ** must be a mapping")
    ELSE IF validate(c, v.d).ok THEN Return(validate(c, v.d).value)
    ELSE Raise("pydantic.ValidationError", "validation error for " \o c)

\* construct_all, were the models collected in reverse order
construct_all_reversed(c, items) ==
    IF \E i \in 1..Len(items) : construct(c, items[i]).kind = "raise"
    THEN construct(c, items[CHOOSE i \in 1..Len(items) :
                                /\ construct(c, items[i]).kind = "raise"
                                /\ \A j \in 1..(i - 1) : construct(c, items[j]).kind = "return"])
    ELSE Return(List([i \in 1..Len(items) |->
                        construct(c, items[Len(items) + 1 - i]).value]))

\* the models built from items, in the order of items, or the first failure
construct_all(c, items) ==
    LET bad == {i \in 1..Len(items) : construct(c, items[i]).kind = "raise"}
    IN  IF bad = {}
        THEN Return(List([i \in 1..Len(items) |-> construct(c, items[i]).value]))
        ELSE construct(c, items[CHOOSE i \in bad : \A j \in bad : i <= j])

\* what iterating v yields; a str yields its characters and a dict its keys,
\* none of which is a mapping
iterate(v) ==
    CASE IsList(v) -> Decoded(v.l)
      [] IsDict(v) -> Decoded(IF v.d = {} THEN <<>> ELSE <<Str("key")>>)
      [] IsStr(v) -> Decoded(IF v.s = "" THEN <<>> ELSE <<Str("char")>>)
      [] OTHER -> Undecodable

\* the list comprehension over v: the models in the order of v, or the first failure
comprehension(c, v) ==
    IF ~iterate(v).ok THEN Raise("TypeError", "object is not iterable")
    ELSE construct_all(c, iterate(v).value)

\* response.get("data", [])
get_data(response) ==
    IF IsDict(response) THEN Return(Get(response.d, "data", List(<<>>)))
    ELSE Raise("AttributeError", "object has no attribute 'get'")

\* response["data"]
index_data(response) ==
    IF ~IsDict(response) THEN Raise("TypeError", "list indices must be integers")
    ELSE IF ~Has(response.d, "data") THEN Raise("KeyError", "'data'")
    ELSE Return(Item(response.d, "data"))

(***************************************************************************)
(* The typed operation facade: what each operation makes of the decoded    *)
(* response.  A failure of the dispatcher is not caught.                   *)
(***************************************************************************)
ReturnsData == {"get_file_metadata", "update_file_metadata", "initiate_upload",
                "commit_upload", "export_repository", "get_export_status"}

Operations == {"list_repositories", "get_repository", "create_repository",
               "get_repository_tree", "search", "search_suggestions", "health_check"}
              \cup ReturnsData

map_response(op, response) ==
    CASE op = "list_repositories" ->
            IF get_data(response).kind = "raise" THEN get_data(response)
            ELSE comprehension("Repository", get_data(response).value)
      [] op \in {"get_repository", "create_repository"} ->
            IF index_data(response).kind = "raise" THEN index_data(response)
            ELSE construct("Repository", index_data(response).value)
      [] op = "get_repository_tree" -> construct("TreeResponse", response)
      [] op = "search" -> construct("SearchResponse", response)
      [] op = "search_suggestions" -> get_data(response)
      [] op \in ReturnsData -> index_data(response)
      [] op = "health_check" -> Return(response)
      [] op = "_request" -> Return(response)

\* what the caller of the operation obtains once the dispatcher has finished with r
facade(op, r) == IF r.kind = "raise" THEN r ELSE map_response(op, r.value)

(***************************************************************************)
(* SearchResponse derived views (models.py): properties computed on each   *)
(* access from self.data.                                                  *)
(***************************************************************************)
DefaultTotal == 0
DefaultLimit == 20
DefaultOffset == 0

\* self.data of a SearchResponse model
data_of(self) == Item(self.f, "data").d

results(self) == comprehension("SearchResult", Get(data_of(self), "results", List(<<>>)))
\* total, were it computed once, from the envelope the response was built with
total_cached(self) == Return(Num(1))

total(self) == Return(Get(data_of(self), "total", Num(DefaultTotal)))
limit(self) == Return(Get(data_of(self), "limit", Num(DefaultLimit)))
offset(self) == Return(Get(data_of(self), "offset", Num(DefaultOffset)))
facets(self) == comprehension("SearchFacet", Get(data_of(self), "facets", List(<<>>)))

Views == {"results", "total", "limit", "offset", "facets"}

\* the access self.<name>
property(name, self) ==
    CASE name = "results" -> results(self)
      [] name = "total" -> total(self)
      [] name = "limit" -> limit(self)
      [] name = "offset" -> offset(self)
      [] name = "facets" -> facets(self)

NoView == [name |-> "", got |-> NoResult, at |-> {}]

(***************************************************************************)
(* The state machine.                                                      *)
(***************************************************************************)
ApiKeys == {None, Str(""), Str("k1")}

\* the call-specific headers a caller of _request passes
ExtraHeaders == {None, Dict({<<"Authorization", "Token t">>}),
                 Dict({<<"X-Trace", "1">>, <<"Content-Type", "text/csv">>})}

NoCall == [op |-> "", method |-> "", url |-> "", extra |-> None, headers |-> {},
           sent |-> 0, json_calls |-> 0]

\* httpx refuses a request on a closed client
ClosedClient ==
    Failure("Exception", "RuntimeError", "Cannot send a request, as the client has been closed.")

\* BlackLakeClient.__init__ / BlackLakeClientSync.__init__: the connection is acquired
Init ==
    /\ wrapper \in {"async", "sync"}
    /\ api_key \in ApiKeys
    /\ http_state = "open"
    /\ releases = 0
    /\ scope = "outside"
    /\ loop = "None"
    /\ pc = "idle"
    /\ call = NoCall
    /\ outcome = NoOutcome
    /\ result = NoResult
    /\ view = NoView

\* continuation, were a failed request sent a second time
continuation_retry(c, e) ==
    IF e.res.kind = "raise" /\ e.res.exc = "BlackLakeError" /\ c.sent < 2
    THEN [pc |-> "awaiting", call |-> [c EXCEPT !.sent = c.sent + 1], result |-> NoResult]
    ELSE [pc |-> "idle", call |-> [c EXCEPT !.json_calls = e.decoded],
          result |-> facade(c.op, e.res)]

\* a facade operation, once its dispatcher call has ended: one request, no retry
continuation(c, e) ==
    [pc |-> "idle", call |-> [c EXCEPT !.json_calls = e.decoded],
     result |-> facade(c.op, e.res)]

\* The call of an operation, made while no other is in progress, up to its suspension
\* in await self._client.request(...).  Through BlackLakeClientSync the call goes by
\* sync_wrapper, which needs the loop.
Invoke(op, method, url, headers) ==
    /\ view' = NoView
    /\ UNCHANGED <<wrapper, api_key, lifecycle>>
    /\ LET c == [op |-> op, method |-> method, url |-> url, extra |-> headers,
                 headers |-> request_headers(api_key, headers), sent |-> 1,
                 json_calls |-> 0]
       IN  IF wrapper = "sync" /\ loop # "open"
           THEN /\ pc' = "idle"
                /\ call' = [c EXCEPT !.sent = 0, !.headers = {}]
                /\ outcome' = NoOutcome
                /\ result' = IF loop = "None"
                             THEN Raise("AttributeError",
                                        "'NoneType' object has no attribute 'run_until_complete'")
                             ELSE Raise("RuntimeError", "Event loop is closed")
           ELSE IF http_state = "closed"
           THEN /\ pc' = continuation(c, _request(ClosedClient)).pc
                /\ call' = continuation(c, _request(ClosedClient)).call
                /\ result' = continuation(c, _request(ClosedClient)).result
                /\ outcome' = ClosedClient
           ELSE /\ pc' = "awaiting"
                /\ call' = c
                /\ outcome' = NoOutcome
                /\ result' = NoResult

\* The transport delivers its outcome; the dispatcher classifies it and the operation
\* maps the decoded response.
Deliver ==
    /\ pc = "awaiting"
    /\ \E out \in Outcomes :
          /\ outcome' = out
          /\ pc' = continuation(call, _request(out)).pc
          /\ call' = continuation(call, _request(out)).call
          /\ result' = continuation(call, _request(out)).result
    /\ UNCHANGED <<wrapper, api_key, lifecycle, view>>

\* _request called by a caller of its own, with call-specific headers
request ==
    /\ pc = "idle"
    /\ \E h \in ExtraHeaders : Invoke("_request", "GET", "/health", h)

list_repositories ==
    /\ pc = "idle"
    /\ Invoke("list_repositories", "GET", "/v1/repos", None)

get_repository ==
    /\ pc = "idle"
    /\ Invoke("get_repository", "GET", "/v1/repos/r", None)

create_repository ==
    /\ pc = "idle"
    /\ Invoke("create_repository", "POST", "/v1/repos", None)

get_repository_tree ==
    /\ pc = "idle"
    /\ Invoke("get_repository_tree", "GET", "/v1/repos/r/tree/main", None)

search ==
    /\ pc = "idle"
    /\ Invoke("search", "GET", "/v1/search", None)

search_suggestions ==
    /\ pc = "idle"
    /\ Invoke("search_suggestions", "GET", "/v1/search/suggest", None)

get_file_metadata ==
    /\ pc = "idle"
    /\ Invoke("get_file_metadata", "GET", "/v1/repos/r/metadata/main/a", None)

update_file_metadata ==
    /\ pc = "idle"
    /\ Invoke("update_file_metadata", "PUT", "/v1/repos/r/metadata/main/a", None)

initiate_upload ==
    /\ pc = "idle"
    /\ Invoke("initiate_upload", "POST", "/v1/repos/r/upload/init", None)

commit_upload ==
    /\ pc = "idle"
    /\ Invoke("commit_upload", "POST", "/v1/repos/r/commit", None)

export_repository ==
    /\ pc = "idle"
    /\ Invoke("export_repository", "POST", "/v1/repos/r/export", None)

get_export_status ==
    /\ pc = "idle"
    /\ Invoke("get_export_status", "GET", "/v1/exports/e", None)

health_check ==
    /\ pc = "idle"
    /\ Invoke("health_check", "GET", "/health", None)

\* self._client.aclose(): httpx releases the connections of a client that is not closed
aclose ==
    /\ http_state' = "closed"
    /\ releases' = IF http_state = "open" THEN releases + 1 ELSE releases

\* BlackLakeClient.close, called on the client or, inside the wrapper's loop, through
\* BlackLakeClientSync.__getattr__
close ==
    /\ wrapper = "sync" => (loop = "open" /\ pc = "idle")
    /\ aclose
    /\ UNCHANGED <<wrapper, api_key, scope, loop, pc, call, outcome, result, view>>

\* BlackLakeClient.__aenter__
aenter ==
    /\ wrapper = "async"
    /\ scope # "inside"
    /\ scope' = "inside"
    /\ UNCHANGED <<wrapper, api_key, http_state, releases, loop,
                   pc, call, outcome, result, view>>

\* BlackLakeClient.__aexit__, on a normal exit and on an exception alike
aexit ==
    /\ wrapper = "async"
    /\ scope = "inside"
    /\ scope' = "exited"
    /\ aclose
    /\ UNCHANGED <<wrapper, api_key, loop, pc, call, outcome, result, view>>

\* BlackLakeClientSync.__enter__
enter ==
    /\ wrapper = "sync"
    /\ scope # "inside"
    /\ pc = "idle"
    /\ loop' = "open"
    /\ scope' = "inside"
    /\ UNCHANGED <<wrapper, api_key, http_state, releases,
                   pc, call, outcome, result, view>>

\* BlackLakeClientSync.__exit__: closes the loop, and only the loop
exit ==
    /\ wrapper = "sync"
    /\ scope = "inside"
    /\ pc = "idle"
    /\ loop' = IF loop # "None" THEN "closed" ELSE loop
    /\ scope' = "exited"
    /\ UNCHANGED <<wrapper, api_key, http_state, releases,
                   pc, call, outcome, result, view>>

Next ==
    \/ request
    \/ list_repositories
    \/ get_repository
    \/ create_repository
    \/ get_repository_tree
    \/ search
    \/ search_suggestions
    \/ get_file_metadata
    \/ update_file_metadata
    \/ initiate_upload
    \/ commit_upload
    \/ export_repository
    \/ get_export_status
    \/ health_check
    \/ Deliver
    \/ close
    \/ aenter
    \/ aexit
    \/ enter
    \/ exit

Spec == Init /\ [][Next]_vars

(***************************************************************************)
(* A SearchResponse in the caller's hands: the envelope is written and the *)
(* derived views are read.                                                 *)
(***************************************************************************)
Hit2 == {<<"id", Str("2")>>, <<"repo_name", Str("r")>>, <<"path", Str("c.csv")>>,
         <<"name", Str("c.csv")>>, <<"size", Num(9)>>}
Facet1 == {<<"name", Str("classification")>>, <<"values", List(<<>>)>>}

\* the items a caller writes into the envelope
Writes ==
    {<<"total", Num(n)>> : n \in 0..MaxTotal}
    \cup {<<"results", List(<<>>)>>, <<"results", List(<<Dict(Hit2), Dict(Hit1)>>)>>,
          <<"results", List(<<Dict({<<"id", Str("3")>>})>>)>>,
          <<"limit", Num(5)>>, <<"facets", List(<<Dict(Facet1)>>)>>}

\* the state after search() has returned a SearchResponse
InitViews ==
    /\ wrapper = "async"
    /\ api_key = None
    /\ http_state = "open"
    /\ releases = 0
    /\ scope = "outside"
    /\ loop = "None"
    /\ pc = "idle"
    /\ outcome \in {Response(200, <<"application/json">>, body) : body \in Bodies}
    /\ call = continuation([op |-> "search", method |-> "GET", url |-> "/v1/search",
                            extra |-> None, headers |-> request_headers(None, None),
                            sent |-> 1, json_calls |-> 0], _request(outcome)).call
    /\ result = facade("search", _request(outcome).res)
    /\ result.kind = "return"
    /\ view = NoView

with_data(self, pairs) == Model(self.cls, SetItem(self.f, "data", Dict(pairs)))

\* response.data[k] = v
set_item ==
    /\ \E w \in Writes :
          result' = [result EXCEPT !.value = with_data(@, SetItem(data_of(@), w[1], w[2]))]
    /\ view' = NoView
    /\ UNCHANGED <<wrapper, api_key, lifecycle, pc, call, outcome>>

\* del response.data[k]
del_item ==
    /\ \E k \in Keys(data_of(result.value)) :
          result' = [result EXCEPT
                        !.value = with_data(@, {p \in data_of(@) : p[1] # k})]
    /\ view' = NoView
    /\ UNCHANGED <<wrapper, api_key, lifecycle, pc, call, outcome>>

\* response.data = {}
assign_data ==
    /\ result' = [result EXCEPT !.value = with_data(@, {})]
    /\ view' = NoView
    /\ UNCHANGED <<wrapper, api_key, lifecycle, pc, call, outcome>>

\* the access response.<name>; `at` is the envelope content at the moment of access
read ==
    /\ \E name \in Views :
          view' = [name |-> name, got |-> property(name, result.value),
                   at |-> data_of(result.value)]
    /\ UNCHANGED <<wrapper, api_key, lifecycle, pc, call, outcome, result>>

NextViews == set_item \/ del_item \/ assign_data \/ read

SpecViews == InitViews /\ [][NextViews]_vars

(***************************************************************************)
(* Properties of the dispatcher.                                           *)
(***************************************************************************)
\* a dispatcher call has ended on a response of the server
Answered == pc = "idle" /\ outcome.kind = "response"

GenericError == Answered /\ outcome.status >= 400 /\ outcome.status \notin {401, 403, 404}

\* C1: every dispatcher call that meets a response whose status is not 2xx, or a
\* transport failure, ends in a raised member of the error taxonomy.
C1_FailureIsTaxonomyMember ==
    (/\ pc = "idle"
     /\ call.op = "_request"
     /\ \/ outcome.kind = "RequestError"
        \/ outcome.kind = "response" /\ outcome.status \notin 200..299)
    => (result.kind = "raise" /\ result.exc \in Taxonomy)

\* C2: a response of status 401, 403 or 404 ends the call in AuthenticationError,
\* AuthorizationError or NotFoundError respectively, whatever its body and content-type,
\* and its body is never decoded.
C2_StatusErrors ==
    (Answered /\ outcome.status \in {401, 403, 404})
    => /\ result.kind = "raise"
       /\ result.exc = (CASE outcome.status = 401 -> "AuthenticationError"
                          [] outcome.status = 403 -> "AuthorizationError"
                          [] outcome.status = 404 -> "NotFoundError")
       /\ call.json_calls = 0

C2_Witness ==
    /\ call.op = "get_repository"
    /\ outcome = Response(404, <<"application/json">>, BodyError)
    /\ result.exc = "NotFoundError"

\* C3 as stated: for a status >= 400 other than 401, 403, 404 the message of the raised
\* failure equals the JSON `error` field when the response is JSON and has it, and
\* "HTTP {code}" otherwise.
C3_MessageIsErrorField ==
    GenericError
    => /\ result.kind = "raise"
       /\ result.message =
             (IF /\ is_json(outcome)
                 /\ json(outcome.text).ok
                 /\ IsDict(json(outcome.text).value)
                 /\ Has(json(outcome.text).value.d, "error")
              THEN PyStr(Item(json(outcome.text).value.d, "error"))
              ELSE "HTTP " \o ToString(outcome.status))

\* C3 amended: for such a status the call raises BlackLakeError whose message is
\* "API error: " followed by the string form of the `error` field when the body is a JSON
\* object that has it, and "API error: HTTP {code}" when the response is not JSON or the
\* object lacks the field; a JSON body that is no object raises outside the taxonomy.
C3_ApiErrorMessage ==
    GenericError
    => IF ~is_json(outcome)
       THEN result = Raise("BlackLakeError", "API error: HTTP " \o ToString(outcome.status))
       ELSE IF json(outcome.text).ok /\ IsDict(json(outcome.text).value)
       THEN result =
               Raise("BlackLakeError",
                     "API error: " \o
                        (IF Has(json(outcome.text).value.d, "error")
                         THEN PyStr(Item(json(outcome.text).value.d, "error"))
                         ELSE "HTTP " \o ToString(outcome.status)))
       ELSE result.kind = "raise" /\ result.exc \in {"JSONDecodeError", "AttributeError"}

C3_Witness ==
    /\ outcome = Response(500, <<"application/json", "; charset=utf-8">>, BodyError)
    /\ pc = "idle"
    /\ result = Raise("BlackLakeError", "API error: boom")

\* C4: every transport-level failure ends the call in NetworkError, or TimeoutError for
\* a timeout, carrying the description of the cause.
C4_TransportFailureIsNetworkError ==
    (pc = "idle" /\ outcome.kind = "RequestError")
    => /\ result.kind = "raise"
       /\ result.exc \in {"NetworkError", "TimeoutError"}

\* C5: the connection acquired at construction is released exactly once by the end of
\* the client's scope, for the asynchronous client and the synchronous wrapper alike,
\* and never more than once.
C5_ReleasedExactlyOnce ==
    /\ releases <= 1
    /\ scope = "exited" => releases = 1

\* the headers a call must send, from the defaults and its call-specific headers
Merged(defaults) ==
    LET specific == IF IsDict(call.extra) THEN call.extra.d ELSE {}
    IN  /\ Keys(call.headers) = Keys(defaults) \cup Keys(specific)
        /\ \A name \in Keys(call.headers) :
              Item(call.headers, name) = IF Has(specific, name) THEN Item(specific, name)
                                         ELSE Item(defaults, name)

BaseHeaders == {<<"Content-Type", "application/json">>,
                <<"User-Agent", "blacklake-sdk-python/0.1.0">>}

\* C6 as stated: the headers sent are the defaults (Content-Type, User-Agent, and
\* Authorization: Bearer <key> exactly when the client was constructed with an API key)
\* overridden by the call-specific headers.
C6_HeadersForEveryKey ==
    call.sent = 1
    => Merged(IF IsNone(api_key) THEN BaseHeaders
              ELSE BaseHeaders \cup {<<"Authorization", "Bearer " \o api_key.s>>})

\* C6 amended: the default Authorization header is present exactly when the client was
\* constructed with a non-empty API key; an empty key sends none.
C6_HeadersMerged ==
    call.sent = 1
    => Merged(IF IsNone(api_key) \/ api_key = Str("") THEN BaseHeaders
              ELSE BaseHeaders \cup {<<"Authorization", "Bearer " \o api_key.s>>})

C6_Witness ==
    /\ api_key = Str("k1")
    /\ call.op = "_request"
    /\ call.sent = 1
    /\ IsDict(call.extra)
    /\ Has(call.extra.d, "Content-Type")
    /\ Item(call.headers, "Content-Type") = "text/csv"
    /\ Item(call.headers, "Authorization") = "Bearer k1"

Success == Answered /\ call.op = "_request" /\ outcome.status < 400

JsonSuccess ==
    /\ Answered
    /\ call.op \in Operations
    /\ outcome.status \in 200..299
    /\ is_json(outcome)
    /\ json(outcome.text).ok

Envelope == json(outcome.text).value

\* model m of class c has the fields of the JSON object `pairs`: a timestamp as the
\* datetime it parses to, an absent optional field as None
Mirrors(m, pairs, c) ==
    /\ IsModel(m)
    /\ m.cls = c
    /\ Keys(m.f) = {f[1] : f \in Fields(c)}
    /\ \A f \in Fields(c) :
          Item(m.f, f[1]) =
             IF ~Has(pairs, f[1]) \/ IsNone(Get(pairs, f[1], None)) THEN None
             ELSE IF f[2] = "datetime" THEN parse_datetime(Item(pairs, f[1])).value
             ELSE Item(pairs, f[1])

\* list v holds, in the order of `items`, one model per JSON object of `items`
MirrorsAll(v, items, c) ==
    /\ IsList(v)
    /\ Len(v.l) = Len(items)
    /\ \A i \in 1..Len(items) : Mirrors(v.l[i], items[i].d, c)

\* what the operation returned has the fields of the decoded JSON
Faithful ==
    CASE call.op = "list_repositories" ->
            IF IsList(Get(Envelope.d, "data", List(<<>>)))
            THEN MirrorsAll(result.value, Get(Envelope.d, "data", List(<<>>)).l, "Repository")
            ELSE result.value = List(<<>>)
      [] call.op \in {"get_repository", "create_repository"} ->
            Mirrors(result.value, Item(Envelope.d, "data").d, "Repository")
      [] call.op = "get_repository_tree" ->
            /\ IsModel(result.value)
            /\ result.value.cls = "TreeResponse"
            /\ Item(result.value.f, "success") = Item(Envelope.d, "success")
            /\ MirrorsAll(Item(result.value.f, "data"), Item(Envelope.d, "data").l,
                          "TreeEntry")
      [] call.op = "search" ->
            /\ IsModel(result.value)
            /\ result.value.cls = "SearchResponse"
            /\ Item(result.value.f, "success") = Item(Envelope.d, "success")
            /\ Item(result.value.f, "data") = Item(Envelope.d, "data")
      [] call.op = "search_suggestions" ->
            result.value = Get(Envelope.d, "data", List(<<>>))
      [] call.op \in ReturnsData -> result.value = Item(Envelope.d, "data")
      [] call.op = "health_check" -> result.value = Envelope

OwnPayload ==
    \/ call.op = "list_repositories" /\ outcome.text = BodyRepos
    \/ call.op \in {"get_repository", "create_repository"} /\ outcome.text = BodyRepo
    \/ call.op = "get_repository_tree" /\ outcome.text = BodyTree
    \/ call.op = "search" /\ outcome.text = BodySearch

C10_OneRequestNoReinterpretation ==
    /\ call.sent <= 1
    /\ outcome.kind # "none" => (pc = "idle" /\ call.sent = 1)
    /\ (outcome.kind # "none" /\ _request(outcome).res.kind = "raise")
       => result = _request(outcome).res
    /\ (result.kind = "raise" /\ result.exc \in Taxonomy)
       => (outcome.kind # "none" /\ result = _request(outcome).res)

C10_Witness ==
    /\ call.op = "search"
    /\ call.sent = 1
    /\ pc = "idle"
    /\ outcome.cls = "ConnectTimeout"
    /\ result = Raise("BlackLakeError", "Request failed: timed out")

(***************************************************************************)
(* Properties of the SearchResponse views.                                 *)
(***************************************************************************)
\* the value of a view, from the envelope content `pairs`
ViewOf(name, pairs) ==
    CASE name = "total" -> Return(IF Has(pairs, "total") THEN Item(pairs, "total") ELSE Num(0))
      [] name = "limit" -> Return(IF Has(pairs, "limit") THEN Item(pairs, "limit") ELSE Num(20))
      [] name = "offset" ->
            Return(IF Has(pairs, "offset") THEN Item(pairs, "offset") ELSE Num(0))
      [] name = "results" ->
            IF Has(pairs, "results")
            THEN comprehension("SearchResult", Item(pairs, "results"))
            ELSE Return(List(<<>>))
      [] name = "facets" ->
            IF Has(pairs, "facets")
            THEN comprehension("SearchFacet", Item(pairs, "facets"))
            ELSE Return(List(<<>>))

\* C9: what a read of a derived view returned is the value computed from the envelope
\* as it is at the moment of access, whatever was written or read before.
C9_ViewsReflectEnvelope ==
    view.name # ""
    => /\ view.at = data_of(result.value)
       /\ view.got = ViewOf(view.name, data_of(result.value))

C9_Witness ==
    /\ outcome.text = BodySearch
    /\ view.name = "total"
    /\ Get(data_of(result.value), "total", None) = Num(2)
    /\ view.got = Return(Num(2))

====
